---- MODULE Spec2Model ----
(***************************************************************************)
(* A model of the schedule engine of SWL_View (src/app/main.py): the day   *)
(* text parser, the entry normaliser, the merge engine, the liveness test  *)
(* and the view builders; and of the radio-control client TCIClient        *)
(* (src/app/tci_service.py and src/app/main.py) that threads share.        *)
(*                                                                         *)
(* A Python str is modelled as a sequence of characters, each character a  *)
(* one-letter string; the en dash is the character "endash".  A conversion *)
(* (strip, lower, zfill, int, the regular expressions, the day label) is   *)
(* computed character by character, as the code computes it.               *)
(***************************************************************************)
EXTENDS Integers, Sequences, FiniteSets, TLC

VARIABLES
    pc,            \* which function is being applied, and whether it has returned
    days,          \* _extract_day_set: the argument
    found_days,    \* _extract_day_set: the value returned
    raw_entries,   \* _merge_entries: the argument (source["entries"])
    merged,        \* _merge_entries: the value returned, or the exception raised
    view,          \* the projection built last from merged
    entry,         \* _is_live_now: the canonical entry
    now_utc,       \* _is_live_now: the instant
    is_live_now,   \* _is_live_now: the value returned (entry["is_live_now"])
    _lock,         \* TCI._lock: the thread that holds it, or NoThread
    _ws,           \* TCI._ws: the connection handle, or NoSocket
    last_error,    \* TCI.last_error
    last_command,  \* TCI.last_command: the commands of the last call that sent them all
    muted,         \* TCI.muted
    profile,       \* TCI.profile
    sockets,       \* the connections that are open
    received,      \* the command that reached a connection last, and the thread that sent it
    threads,       \* of each thread: the call it is in, how far it is, what its last call returned
    calls          \* the number of calls on TCI begun so far

schedule_vars == <<pc, days, found_days, raw_entries, merged, view, entry, now_utc, is_live_now>>

tci_vars ==
    <<_lock, _ws, last_error, last_command, muted, profile, sockets, received, threads, calls>>

vars == <<schedule_vars, tci_vars>>

(***************************************************************************)
(* Characters and str methods                                              *)
(***************************************************************************)
UpperCase == <<"A","B","C","D","E","F","G","H","I","J","K","L","M",
               "N","O","P","Q","R","S","T","U","V","W","X","Y","Z">>

LowerCase == <<"a","b","c","d","e","f","g","h","i","j","k","l","m",
               "n","o","p","q","r","s","t","u","v","w","x","y","z">>

Digits == <<"0","1","2","3","4","5","6","7","8","9">>

WhiteSpace == {" ", "\t"}

Dashes == {"-", "endash"}

IsUpper(c) == \E i \in 1..Len(UpperCase) : UpperCase[i] = c

LowerChar(c) ==
    IF IsUpper(c)
    THEN LowerCase[CHOOSE i \in 1..Len(UpperCase) : UpperCase[i] = c]
    ELSE c

\* str.lower()
Lower(s) == [i \in 1..Len(s) |-> LowerChar(s[i])]

RECURSIVE LStrip(_)
LStrip(s) ==
    IF s # <<>> /\ Head(s) \in WhiteSpace THEN LStrip(Tail(s)) ELSE s

RECURSIVE RStrip(_)
RStrip(s) ==
    IF s # <<>> /\ s[Len(s)] \in WhiteSpace
    THEN RStrip(SubSeq(s, 1, Len(s) - 1))
    ELSE s

\* str.strip()
Strip(s) == RStrip(LStrip(s))

IsDigitChar(c) == \E i \in 1..Len(Digits) : Digits[i] = c

DigitValue(c) == (CHOOSE i \in 1..Len(Digits) : Digits[i] = c) - 1

\* str.isdigit(): every character is a digit and there is at least one
IsDigit(s) == s # <<>> /\ \A i \in 1..Len(s) : IsDigitChar(s[i])

RECURSIVE ZFill(_, _)
\* str.zfill(width)
ZFill(s, width) == IF Len(s) >= width THEN s ELSE ZFill(<<"0">> \o s, width)

RECURSIVE IntOfDigits(_)
\* int(s) of a str of digits
IntOfDigits(s) ==
    IF s = <<>> THEN 0
    ELSE 10 * IntOfDigits(SubSeq(s, 1, Len(s) - 1)) + DigitValue(s[Len(s)])

\* needle in s
Contains(s, needle) ==
    \E i \in 1..(Len(s) - Len(needle) + 1) :
        SubSeq(s, i, i + Len(needle) - 1) = needle

RECURSIVE Join(_, _)
\* sep.join(parts)
Join(parts, sep) ==
    IF parts = <<>> THEN <<>>
    ELSE IF Len(parts) = 1 THEN parts[1]
    ELSE parts[1] \o sep \o Join(Tail(parts), sep)

(***************************************************************************)
(* Week days                                                               *)
(***************************************************************************)
DAY_ORDER == <<"mo", "tu", "we", "th", "fr", "sa", "su">>

DayCodes == {DAY_ORDER[i] : i \in 1..Len(DAY_ORDER)}

DAY_LABEL ==
    [d \in DayCodes |->
        CASE d = "mo" -> <<"M","o","n">>
          [] d = "tu" -> <<"T","u","e">>
          [] d = "we" -> <<"W","e","d">>
          [] d = "th" -> <<"T","h","u">>
          [] d = "fr" -> <<"F","r","i">>
          [] d = "sa" -> <<"S","a","t">>
          [] d = "su" -> <<"S","u","n">>]

\* the two characters of a week day code
CodeChars ==
    [d \in DayCodes |->
        CASE d = "mo" -> <<"m","o">>
          [] d = "tu" -> <<"t","u">>
          [] d = "we" -> <<"w","e">>
          [] d = "th" -> <<"t","h">>
          [] d = "fr" -> <<"f","r">>
          [] d = "sa" -> <<"s","a">>
          [] d = "su" -> <<"s","u">>]

\* DAY_ORDER.index(d), counted from 0 as in the code
DayIndex(d) == (CHOOSE i \in 1..Len(DAY_ORDER) : DAY_ORDER[i] = d) - 1

\* DAY_ORDER[idx], idx counted from 0
DayAt(idx) == DAY_ORDER[idx + 1]

\* set(DAY_ORDER[lo : hi]), a Python slice: indices lo .. hi-1, counted from 0
DaySlice(lo, hi) == {DayAt(i) : i \in lo..(hi - 1)}

\* [d for d in DAY_ORDER if d in day_set]
OrderedDays(day_set) ==
    LET F[i \in 0..Len(DAY_ORDER)] ==
            IF i = 0 THEN <<>>
            ELSE IF DAY_ORDER[i] \in day_set THEN Append(F[i - 1], DAY_ORDER[i])
            ELSE F[i - 1]
    IN  F[Len(DAY_ORDER)]

(***************************************************************************)
(* _extract_day_set                                                        *)
(***************************************************************************)
\* the value None, and a set of days, as _extract_day_set returns them
NoDaySet == [none |-> TRUE, set |-> {}]

SomeDaySet(s) == [none |-> FALSE, set |-> s]

\* re.findall(r"[1-7]", text): one day per digit 1..7 of the text
DigitDays(text) ==
    {DayAt(DigitValue(text[i]) - 1) :
        i \in {j \in 1..Len(text) :
                 IsDigitChar(text[j]) /\ DigitValue(text[j]) \in 1..7}}

\* (mo|tu|we|th|fr|sa|su) matches at position i
AbbrevAt(text, i) ==
    /\ i >= 1
    /\ i + 1 <= Len(text)
    /\ \E d \in DayCodes : CodeChars[d] = <<text[i], text[i + 1]>>

AbbrevOf(text, i) == CHOOSE d \in DayCodes : CodeChars[d] = <<text[i], text[i + 1]>>

RECURSIVE SkipSpace(_, _)
\* \s* from position i: the first position that holds no white space
SkipSpace(text, i) ==
    IF i <= Len(text) /\ text[i] \in WhiteSpace THEN SkipSpace(text, i + 1) ELSE i

\* (?:\s*[-–]\s*(mo|..|su))? after an abbreviation that ends before position i:
\* the position of the second abbreviation, or 0 when the group does not match
RangeEndAt(text, i) ==
    LET dash == SkipSpace(text, i)
        second == SkipSpace(text, dash + 1)
    IN  IF dash <= Len(text) /\ text[dash] \in Dashes /\ AbbrevAt(text, second)
        THEN second
        ELSE 0

\* the wrap-around mutant: a range whose start is after its end stops at Sunday
DayRangeNoWrap(start, end) ==
    LET start_idx == DayIndex(start)
        end_idx == DayIndex(end)
    IN  IF start_idx <= end_idx
        THEN DaySlice(start_idx, end_idx + 1)
        ELSE DaySlice(start_idx, Len(DAY_ORDER))

\* lines 292-297: the days of the range start-end
DayRange(start, end) ==
    LET start_idx == DayIndex(start)
        end_idx == DayIndex(end)
    IN  IF start_idx <= end_idx
        THEN DaySlice(start_idx, end_idx + 1)
        ELSE DaySlice(start_idx, Len(DAY_ORDER)) \cup DaySlice(0, end_idx + 1)

RECURSIVE AbbrevDays(_, _)
\* the loop over re.finditer: the matches are found left to right and do not
\* overlap; the search resumes where the last match ended
AbbrevDays(text, i) ==
    IF i + 1 > Len(text) THEN {}
    ELSE IF ~AbbrevAt(text, i) THEN AbbrevDays(text, i + 1)
    ELSE LET start == AbbrevOf(text, i)
             second == RangeEndAt(text, i + 2)
         IN  IF second = 0
             THEN {start} \cup AbbrevDays(text, i + 2)
             ELSE DayRange(start, AbbrevOf(text, second))
                      \cup AbbrevDays(text, second + 2)

\* the mutant that does not strip the text before testing it for emptiness
ExtractDaySetNoStrip(days_arg) ==
    LET text == Lower(days_arg)
        found == DigitDays(text) \cup AbbrevDays(text, 1)
    IN  IF text = <<>> \/ Contains(text, <<"d","a","i","l","y">>)
        THEN SomeDaySet(DayCodes)
        ELSE IF found = {} THEN NoDaySet ELSE SomeDaySet(found)

ExtractDaySet(days_arg) ==
    LET text == Lower(Strip(days_arg))
        found == DigitDays(text) \cup AbbrevDays(text, 1)
    IN  IF text = <<>> \/ Contains(text, <<"d","a","i","l","y">>)
        THEN SomeDaySet(DayCodes)
        ELSE IF found = {} THEN NoDaySet ELSE SomeDaySet(found)

\* the mutant that labels a group with the day text of its first member
DaySetToDisplayRaw(day_set, fallback) == fallback

\* _day_set_to_display
DaySetToDisplay(day_set, fallback) ==
    IF day_set = {} THEN fallback
    ELSE IF day_set = DayCodes THEN <<"D","a","i","l","y">>
    ELSE LET ordered == OrderedDays(day_set)
         IN  Join([i \in 1..Len(ordered) |-> DAY_LABEL[ordered[i]]], <<",">>)

(***************************************************************************)
(* Ordering of str values (code point order of the characters the model    *)
(* uses) and of the sort keys                                              *)
(***************************************************************************)
CharOrder ==
    <<"\t", " ", "+", ",", "-">> \o Digits \o <<":">> \o UpperCase \o <<"_">>
        \o LowerCase \o <<"endash">>

Ord(c) == CHOOSE i \in 1..Len(CharOrder) : CharOrder[i] = c

RECURSIVE StrLess(_, _)
\* s < t for two str values
StrLess(s, t) ==
    IF t = <<>> THEN FALSE
    ELSE IF s = <<>> THEN TRUE
    ELSE IF Head(s) = Head(t) THEN StrLess(Tail(s), Tail(t))
    ELSE Ord(Head(s)) < Ord(Head(t))

\* the order of two ints and of two strs: -1, 0 or 1
IntCmp(x, y) == IF x < y THEN -1 ELSE IF x = y THEN 0 ELSE 1

StrCmp(s, t) == IF s = t THEN 0 ELSE IF StrLess(s, t) THEN -1 ELSE 1

RECURSIVE TupleLess(_)
\* a < b for two tuples, given the order of their fields one by one
TupleLess(cmps) ==
    IF cmps = <<>> THEN FALSE
    ELSE IF Head(cmps) = 0 THEN TupleLess(Tail(cmps))
    ELSE Head(cmps) < 0

\* x put into the sorted list after every element that is not above it
InsertSorted(sorted, x, Less(_, _)) ==
    LET above == {k \in 1..Len(sorted) : Less(x, sorted[k])}
        at == IF above = {} THEN Len(sorted) + 1
              ELSE CHOOSE k \in above : \A m \in above : k <= m
    IN  SubSeq(sorted, 1, at - 1) \o <<x>> \o SubSeq(sorted, at, Len(sorted))

\* list.sort(key=...) and sorted(..., key=...): a stable sort; Less(a, b) is
\* key(a) < key(b)
SortBy(list, Less(_, _)) ==
    LET S[i \in 0..Len(list)] ==
            IF i = 0 THEN <<>> ELSE InsertSorted(S[i - 1], list[i], Less)
    IN  S[Len(list)]

(***************************************************************************)
(* _parse_hhmm                                                             *)
(***************************************************************************)
\* the value None of _parse_hhmm
NoTime == -1

\* the mutant that takes "2400" for invalid
ParseHHMMNo2400(value_arg) ==
    LET stripped == Strip(value_arg)
        value == ZFill(stripped, 4)
        hours == IntOfDigits(SubSeq(value, 1, 2))
        minutes == IntOfDigits(SubSeq(value, 3, Len(value)))
    IN  IF ~IsDigit(stripped) THEN NoTime
        ELSE IF hours > 23 \/ minutes > 59 THEN NoTime
        ELSE (hours * 60) + minutes

ParseHHMM(value_arg) ==
    LET stripped == Strip(value_arg)
        value == ZFill(stripped, 4)
        hours == IntOfDigits(SubSeq(value, 1, 2))
        minutes == IntOfDigits(SubSeq(value, 3, Len(value)))
    IN  IF ~IsDigit(stripped) THEN NoTime
        ELSE IF hours = 24 /\ minutes = 0 THEN 1440
        ELSE IF hours > 23 \/ minutes > 59 THEN NoTime
        ELSE (hours * 60) + minutes

\* the sort sentinel of an entry whose time-on does not parse
NoStartSort == 10000

\* _parse_hhmm(e["time_on"]) if it is not None else 10_000
StartSort(time_on) ==
    IF ParseHHMM(time_on) # NoTime THEN ParseHHMM(time_on) ELSE NoStartSort

(***************************************************************************)
(* _normalize_entry                                                        *)
(***************************************************************************)
\* the frequency_khz field of a raw entry: absent, an int, or a str
FreqAbsent == [kind |-> "absent", int |-> 0, str |-> <<>>]

FreqInt(n) == [kind |-> "int", int |-> n, str |-> <<>>]

FreqStr(s) == [kind |-> "str", int |-> 0, str |-> s]

\* int(s) accepts a str of digits, with white space around it and a sign before it
IntLiteral(s) ==
    LET t == Strip(s)
    IN  IF t # <<>> /\ Head(t) \in {"+", "-"} THEN Tail(t) ELSE t

IntAccepts(s) == IsDigit(IntLiteral(s))

IntOfStr(s) ==
    LET t == Strip(s)
    IN  IF Head(t) = "-" THEN 0 - IntOfDigits(IntLiteral(s)) ELSE IntOfDigits(IntLiteral(s))

\* int(entry.get("frequency_khz", 0) or 0) raises ValueError
FrequencyRaises(f) == f.kind = "str" /\ f.str # <<>> /\ ~IntAccepts(f.str)

\* int(entry.get("frequency_khz", 0) or 0), when it does not raise
FrequencyOf(f) ==
    CASE f.kind = "absent" -> 0
      [] f.kind = "int" -> f.int
      [] f.kind = "str" -> IF f.str = <<>> THEN 0 ELSE IntOfStr(f.str)

NormalizeRaises(raw) == FrequencyRaises(raw.frequency_khz)

NormalizeEntry(raw) ==
    [frequency_khz |-> FrequencyOf(raw.frequency_khz),
     time_on |-> Strip(raw.time_on),
     time_off |-> Strip(raw.time_off),
     days_raw |-> Strip(raw.days),
     itu |-> Strip(raw.itu),
     station |-> Strip(raw.station),
     language |-> Strip(raw.language),
     target |-> Strip(raw.target),
     remarks |-> Strip(raw.remarks)]

(***************************************************************************)
(* _merge_entries.  The display-only fields of a canonical entry that no   *)
(* builder modelled here reads (flag, time_display, time_days_display,     *)
(* lang_target_display) are left out.                                      *)
(***************************************************************************)
ParsedIdentity == <<"_","_","p","a","r","s","e","d","_","_">>

RawIdentityPrefix == <<"_","_","r","a","w","_","_",":">>

\* the mutant that forgets .lower() in the identity of an unparsed day text
DayIdentityNoLower(day_set, days_raw) ==
    IF ~day_set.none THEN ParsedIdentity ELSE RawIdentityPrefix \o days_raw

\* line 361
DayIdentity(day_set, days_raw) ==
    IF ~day_set.none THEN ParsedIdentity ELSE RawIdentityPrefix \o Lower(days_raw)

\* lines 362-372
MergeKey(normalized, day_set) ==
    <<normalized.frequency_khz, normalized.time_on, normalized.time_off,
      normalized.itu, normalized.station, normalized.language,
      normalized.target, normalized.remarks,
      DayIdentity(day_set, normalized.days_raw)>>

\* lines 374-378: the item of a new group
NewGroup(key, normalized, day_set) ==
    [key |-> key,
     normalized |-> normalized,
     _day_set |-> IF ~day_set.none THEN day_set.set ELSE {},
     day_set_known |-> ~day_set.none]

\* the mutant that keeps the day set of the first member of a group
UpdateGroupKeepFirst(group, day_set) == group

\* lines 379-380: a further member of a group
UpdateGroup(group, day_set) ==
    IF ~day_set.none
    THEN [group EXCEPT !._day_set = group._day_set \cup day_set.set]
    ELSE group

\* the position of the key in grouped (a dict, in insertion order), or 0
GroupIndex(grouped, key) ==
    IF \E g \in 1..Len(grouped) : grouped[g].key = key
    THEN CHOOSE g \in 1..Len(grouped) : grouped[g].key = key
    ELSE 0

RECURSIVE GroupEntries(_, _, _)
\* lines 357-380: the loop over raw_entries from position i, no entry of which raises
GroupEntries(raw_list, i, grouped) ==
    IF i > Len(raw_list) THEN grouped
    ELSE LET normalized == NormalizeEntry(raw_list[i])
             day_set == ExtractDaySet(normalized.days_raw)
             key == MergeKey(normalized, day_set)
             g == GroupIndex(grouped, key)
         IN  GroupEntries(raw_list, i + 1,
                 IF g = 0
                 THEN Append(grouped, NewGroup(key, normalized, day_set))
                 ELSE [grouped EXCEPT ![g] = UpdateGroup(grouped[g], day_set)])

\* lines 383-396: the canonical entry of a group
CanonicalEntry(item) ==
    LET day_set == IF item.day_set_known THEN item._day_set ELSE {}
        n == item.normalized
    IN  [frequency_khz |-> n.frequency_khz,
         time_on |-> n.time_on,
         time_off |-> n.time_off,
         days_raw |-> n.days_raw,
         itu |-> n.itu,
         station |-> n.station,
         language |-> n.language,
         target |-> n.target,
         remarks |-> n.remarks,
         day_set_known |-> item.day_set_known,
         day_set |-> OrderedDays(day_set),
         days |-> DaySetToDisplay(day_set, n.days_raw)]

\* the mutant that compares the station names as they are written
MergedKeyLessRawStation(a, b) ==
    TupleLess(<<IntCmp(StartSort(a.time_on), StartSort(b.time_on)),
                StrCmp(a.time_off, b.time_off),
                IntCmp(a.frequency_khz, b.frequency_khz),
                StrCmp(a.station, b.station)>>)

\* lines 398-405: the order of the sort key of merged
MergedKeyLess(a, b) ==
    TupleLess(<<IntCmp(StartSort(a.time_on), StartSort(b.time_on)),
                StrCmp(a.time_off, b.time_off),
                IntCmp(a.frequency_khz, b.frequency_khz),
                StrCmp(Lower(a.station), Lower(b.station))>>)

\* the value of a call that raised, and of one that returned a list
Raised == [raised |-> TRUE, entries |-> <<>>]

Returned(list) == [raised |-> FALSE, entries |-> list]

MergeEntries(raw_list) ==
    IF \E i \in 1..Len(raw_list) : NormalizeRaises(raw_list[i])
    THEN Raised
    ELSE LET grouped == GroupEntries(raw_list, 1, <<>>)
             unsorted == [g \in 1..Len(grouped) |-> CanonicalEntry(grouped[g])]
         IN  Returned(SortBy(unsorted, MergedKeyLess))

(***************************************************************************)
(* _day_matches, _entry_matches_weekday, _is_live_now.  An instant is the  *)
(* record of now_utc.weekday(), now_utc.hour and now_utc.minute.           *)
(***************************************************************************)
DayMatches(days_text, weekday_utc) ==
    LET day_set == ExtractDaySet(days_text)
    IN  IF day_set.none THEN TRUE ELSE DayAt(weekday_utc) \in day_set.set

\* the mutant that matches no day when no day set is known
EntryMatchesWeekdayKnownOnly(e, weekday_idx) ==
    e.day_set_known /\ DAY_ORDER[weekday_idx + 1] \in {e.day_set[k] : k \in 1..Len(e.day_set)}

\* the mutant that also accepts the day after a day of the day set
EntryMatchesWeekdayOrEve(e, weekday_idx) ==
    IF e.day_set_known
    THEN \/ DayAt(weekday_idx) \in {e.day_set[i] : i \in 1..Len(e.day_set)}
         \/ DayAt((weekday_idx + 6) % 7) \in {e.day_set[i] : i \in 1..Len(e.day_set)}
    ELSE DayMatches(e.days_raw, weekday_idx)

EntryMatchesWeekday(e, weekday_idx) ==
    LET code == DayAt(weekday_idx)
    IN  IF e.day_set_known
        THEN code \in {e.day_set[i] : i \in 1..Len(e.day_set)}
        ELSE DayMatches(e.days_raw, weekday_idx)

\* the mutant whose day window holds its last minute too
IsLiveNowClosedEnd(e, now) ==
    LET start == ParseHHMM(e.time_on)
        end == ParseHHMM(e.time_off)
        now_minutes == (now.hour * 60) + now.minute
    IN  IF ~EntryMatchesWeekday(e, now.weekday) THEN FALSE
        ELSE IF start = NoTime \/ end = NoTime THEN FALSE
        ELSE IF start = end THEN TRUE
        ELSE IF start < end THEN start <= now_minutes /\ now_minutes <= end
        ELSE now_minutes >= start \/ now_minutes < end

\* the mutant without the window that crosses midnight
IsLiveNowNoWrap(e, now) ==
    LET start == ParseHHMM(e.time_on)
        end == ParseHHMM(e.time_off)
        now_minutes == (now.hour * 60) + now.minute
    IN  IF ~EntryMatchesWeekday(e, now.weekday) THEN FALSE
        ELSE IF start = NoTime \/ end = NoTime THEN FALSE
        ELSE IF start = end THEN TRUE
        ELSE start <= now_minutes /\ now_minutes < end

\* the mutant without the 24-hour window
IsLiveNowNoAlwaysOn(e, now) ==
    LET start == ParseHHMM(e.time_on)
        end == ParseHHMM(e.time_off)
        now_minutes == (now.hour * 60) + now.minute
    IN  IF ~EntryMatchesWeekday(e, now.weekday) THEN FALSE
        ELSE IF start = NoTime \/ end = NoTime THEN FALSE
        ELSE IF start <= end THEN start <= now_minutes /\ now_minutes < end
        ELSE now_minutes >= start \/ now_minutes < end

IsLiveNow(e, now) ==
    LET start == ParseHHMM(e.time_on)
        end == ParseHHMM(e.time_off)
        now_minutes == (now.hour * 60) + now.minute
    IN  IF ~EntryMatchesWeekday(e, now.weekday) THEN FALSE
        ELSE IF start = NoTime \/ end = NoTime THEN FALSE
        ELSE IF start = end THEN TRUE
        ELSE IF start < end THEN start <= now_minutes /\ now_minutes < end
        ELSE now_minutes >= start \/ now_minutes < end

(***************************************************************************)
(* The view builders.  The is_live_now flag of a column or a point is left *)
(* out: it copies the flag stamped on the entries and no builder reads it. *)
(***************************************************************************)
\* the keys of a dict filled by a loop over entries, in insertion order
KeysInOrder(entries, KeyOf(_)) ==
    LET K[i \in 0..Len(entries)] ==
            IF i = 0 THEN <<>>
            ELSE LET seen == K[i - 1]
                 IN  IF \E k \in 1..Len(seen) : seen[k] = KeyOf(entries[i])
                     THEN seen
                     ELSE Append(seen, KeyOf(entries[i]))
    IN  K[Len(entries)]

\* [e for e in entries if Keep(e)], in the order of entries
Filter(entries, Keep(_)) ==
    LET F[i \in 0..Len(entries)] ==
            IF i = 0 THEN <<>>
            ELSE IF Keep(entries[i]) THEN Append(F[i - 1], entries[i])
            ELSE F[i - 1]
    IN  F[Len(entries)]

ColumnKey(e) == <<e.time_on, e.time_off, e.days>>

\* line 417
ColumnEntryLess(a, b) ==
    TupleLess(<<IntCmp(a.frequency_khz, b.frequency_khz),
                StrCmp(Lower(a.station), Lower(b.station))>>)

\* line 427 and 432: the order of the sort_key of two columns
ColumnLess(a, b) ==
    TupleLess(<<IntCmp(StartSort(a.time_on), StartSort(b.time_on)),
                StrCmp(a.time_off, b.time_off),
                StrCmp(a.days, b.days)>>)

\* _build_columns
BuildColumns(entries) ==
    LET keys == KeysInOrder(entries, ColumnKey)
        Column(key) ==
            LET InColumn(e) == ColumnKey(e) = key
            IN  [time_on |-> key[1],
                 time_off |-> key[2],
                 days |-> key[3],
                 entries |-> SortBy(Filter(entries, InColumn), ColumnEntryLess)]
    IN  SortBy([k \in 1..Len(keys) |-> Column(keys[k])], ColumnLess)

\* the key of slot_map, line 468
SlotKey(e) == <<e.time_on, e.time_off>>

\* line 477: the order of (s["sort"], s["time_off"])
SlotLess(a, b) ==
    TupleLess(<<IntCmp(StartSort(a.time_on), StartSort(b.time_on)),
                StrCmp(a.time_off, b.time_off)>>)

\* line 489
CellEntryLess(a, b) ==
    TupleLess(<<IntCmp(a.frequency_khz, b.frequency_khz),
                StrCmp(Lower(a.station), Lower(b.station))>>)

\* _build_time_day_grid; the display text of a slot and the live flag of a
\* cell are left out
BuildTimeDayGrid(entries) ==
    LET keys == KeysInOrder(entries, SlotKey)
        time_slots ==
            SortBy([k \in 1..Len(keys) |-> [time_on |-> keys[k][1], time_off |-> keys[k][2]]],
                   SlotLess)
        Cell(day_idx, slot) ==
            LET InCell(e) ==
                    /\ e.time_on = slot.time_on
                    /\ e.time_off = slot.time_off
                    /\ EntryMatchesWeekday(e, day_idx)
            IN  [slot_key |-> Join(<<slot.time_on, slot.time_off>>, <<"-">>),
                 entries |-> SortBy(Filter(entries, InCell), CellEntryLess)]
        Row(day_idx) ==
            [day_code |-> DAY_ORDER[day_idx + 1],
             day_label |-> DAY_LABEL[DAY_ORDER[day_idx + 1]],
             cells |-> [k \in 1..Len(time_slots) |-> Cell(day_idx, time_slots[k])]]
    IN  [time_slots |-> time_slots,
         day_rows |-> [d \in 1..Len(DAY_ORDER) |-> Row(d - 1)]]

\* the size and the margins of the plot, lines 553-558
plot_w == 1500

plot_h == 900

left == 70

right == 20

top == 20

bottom == 30

usable_w == plot_w - left - right

usable_h == plot_h - top - bottom

\* the frequency range of an empty plot, lines 548-549
DefaultMinFreq == 1000

DefaultMaxFreq == 30000

\* the number of minutes the y axis is scaled by, line 569
LastMinute == 1439

SetMin(S) == CHOOSE x \in S : \A y \in S : x <= y

SetMax(S) == CHOOSE x \in S : \A y \in S : x >= y

\* round(): num / den rounded to the nearest integer, a tie to the even one (the
\* code rounds a float; the model rounds the exact quotient)
RoundDiv(num, den) ==
    LET q == num \div den
        r == num % den
    IN  IF 2 * r < den THEN q
        ELSE IF 2 * r > den THEN q + 1
        ELSE IF q % 2 = 0 THEN q ELSE q + 1

\* the mutant that measures x from the frequency 0
BuildFreqTimePlotFromZero(entries) ==
    LET freqs == {entries[i].frequency_khz : i \in {j \in 1..Len(entries) : entries[j].frequency_khz > 0}}
        min_freq == IF freqs # {} THEN SetMin(freqs) ELSE DefaultMinFreq
        max_0 == IF freqs # {} THEN SetMax(freqs) ELSE DefaultMaxFreq
        max_freq == IF min_freq = max_0 THEN min_freq + 1 ELSE max_0
        Plotted(e) == ~(e.frequency_khz <= 0 \/ ParseHHMM(e.time_on) = NoTime)
        plotted == Filter(entries, Plotted)
        Point(e) ==
            [x |-> RoundDiv(100 * (left * (max_freq - min_freq)
                                      + e.frequency_khz * usable_w),
                            max_freq - min_freq),
             y |-> RoundDiv(100 * (top * LastMinute + ParseHHMM(e.time_on) * usable_h),
                            LastMinute),
             freq_khz |-> e.frequency_khz,
             station |-> e.station,
             remarks |-> e.remarks]
    IN  [min_freq |-> min_freq,
         max_freq |-> max_freq,
         points |-> [k \in 1..Len(plotted) |-> Point(plotted[k])]]

\* _build_freq_time_plot; x and y, rounded to 2 places, are kept in hundredths
BuildFreqTimePlot(entries) ==
    LET freqs == {entries[i].frequency_khz : i \in {j \in 1..Len(entries) : entries[j].frequency_khz > 0}}
        min_freq == IF freqs # {} THEN SetMin(freqs) ELSE DefaultMinFreq
        max_0 == IF freqs # {} THEN SetMax(freqs) ELSE DefaultMaxFreq
        max_freq == IF min_freq = max_0 THEN min_freq + 1 ELSE max_0
        Plotted(e) == ~(e.frequency_khz <= 0 \/ ParseHHMM(e.time_on) = NoTime)
        plotted == Filter(entries, Plotted)
        Point(e) ==
            [x |-> RoundDiv(100 * (left * (max_freq - min_freq)
                                      + (e.frequency_khz - min_freq) * usable_w),
                            max_freq - min_freq),
             y |-> RoundDiv(100 * (top * LastMinute + ParseHHMM(e.time_on) * usable_h),
                            LastMinute),
             freq_khz |-> e.frequency_khz,
             station |-> e.station,
             remarks |-> e.remarks]
    IN  [min_freq |-> min_freq,
         max_freq |-> max_freq,
         points |-> [k \in 1..Len(plotted) |-> Point(plotted[k])]]

\* sorted(S) of a set of ints
RECURSIVE SortedInts(_)
SortedInts(S) ==
    IF S = {} THEN <<>> ELSE <<SetMin(S)>> \o SortedInts(S \ {SetMin(S)})

\* int(a / b) for b > 0: the quotient cut towards zero
TruncDiv(a, b) == IF a >= 0 THEN a \div b ELSE 0 - ((0 - a) \div b)

Min(a, b) == IF a <= b THEN a ELSE b

Max(a, b) == IF a >= b THEN a ELSE b

\* the mutant that keeps the frequencies that are not positive
BuildFreqJumpsAll(entries, segments) ==
    LET freqs == SortedInts({entries[i].frequency_khz : i \in 1..Len(entries)})
        n == Len(freqs)
        Jump(i) ==
            LET start_idx == Min(n - 1, TruncDiv(i * n, segments))
                end_idx == Min(n - 1, TruncDiv((i + 1) * n - segments, segments))
            IN  [index |-> i + 1,
                 ratio |-> <<start_idx, Max(1, n - 1)>>,
                 start_idx |-> start_idx,
                 end_idx |-> end_idx,
                 start_khz |-> freqs[start_idx + 1],
                 end_khz |-> freqs[end_idx + 1]]
    IN  IF freqs = <<>> \/ segments <= 1 THEN <<>>
        ELSE [k \in 1..segments |-> Jump(k - 1)]

\* the mutant whose loop stops one segment early
BuildFreqJumpsShort(entries, segments) ==
    LET freqs == SortedInts({entries[i].frequency_khz :
                               i \in {j \in 1..Len(entries) : entries[j].frequency_khz > 0}})
        n == Len(freqs)
        Jump(i) ==
            LET start_idx == Min(n - 1, TruncDiv(i * n, segments))
                end_idx == Min(n - 1, TruncDiv((i + 1) * n - segments, segments))
            IN  [index |-> i + 1,
                 ratio |-> <<start_idx, Max(1, n - 1)>>,
                 start_idx |-> start_idx,
                 end_idx |-> end_idx,
                 start_khz |-> freqs[start_idx + 1],
                 end_khz |-> freqs[end_idx + 1]]
    IN  IF freqs = <<>> \/ segments <= 1 THEN <<>>
        ELSE [k \in 1..(segments - 1) |-> Jump(k - 1)]

\* _build_freq_jumps; ratio is the pair <<numerator, denominator>>, and end_khz
\* is the end frequency that the label shows after the start frequency
BuildFreqJumps(entries, segments) ==
    LET freqs == SortedInts({entries[i].frequency_khz :
                               i \in {j \in 1..Len(entries) : entries[j].frequency_khz > 0}})
        n == Len(freqs)
        Jump(i) ==
            LET start_idx == Min(n - 1, TruncDiv(i * n, segments))
                end_idx == Min(n - 1, TruncDiv((i + 1) * n - segments, segments))
            IN  [index |-> i + 1,
                 ratio |-> <<start_idx, Max(1, n - 1)>>,
                 start_idx |-> start_idx,
                 end_idx |-> end_idx,
                 start_khz |-> freqs[start_idx + 1],
                 end_khz |-> freqs[end_idx + 1]]
    IN  IF freqs = <<>> \/ segments <= 1 THEN <<>>
        ELSE [k \in 1..segments |-> Jump(k - 1)]

\* the segment count index() passes, line 763
Segments == 10

\* no projection built yet, and the projections
NoView ==
    [mode |-> "none", columns |-> <<>>, points |-> <<>>, freq_jumps |-> <<>>,
     time_slots |-> <<>>, day_rows |-> <<>>]

ColumnsView(columns) == [NoView EXCEPT !.mode = "columns", !.columns = columns]

PlotView(plot) == [NoView EXCEPT !.mode = "freqgrid", !.points = plot.points]

JumpsView(jumps) == [NoView EXCEPT !.mode = "freq_jumps", !.freq_jumps = jumps]

GridView(grid) ==
    [NoView EXCEPT !.mode = "grid", !.time_slots = grid.time_slots, !.day_rows = grid.day_rows]

(***************************************************************************)
(* TCIClient: the state of the one client TCI = TCIClient() and of the     *)
(* threads that call it.  A command is kept by its kind; the command of    *)
(* send_raw is kept with its text.                                         *)
(***************************************************************************)
NumThreads == 2

Threads == 1..NumThreads

\* the lock held by no thread
NoThread == 0

\* the value None of self._ws
NoSocket == 0

DEFAULT_TCI_PROFILE == "thetis"

VALID_TCI_PROFILES == {"thetis", "expert"}

Cmd(kind) == [kind |-> kind, text |-> <<>>]

RawCmd(text) == [kind |-> "raw", text |-> text]

\* nothing has reached a connection yet
NoCommand == [thread |-> NoThread, cmd |-> Cmd("none")]

\* what a call returned: (ok, message); message is last_command when ok, and
\* connected is the "connected" field of the dict that status() returns
NoResult == [ok |-> FALSE, message |-> "", commands |-> <<>>, connected |-> FALSE]

Failure(message) == [NoResult EXCEPT !.message = message]

Success(commands) == [NoResult EXCEPT !.ok = TRUE, !.message = "sent", !.commands = commands]

\* a thread that is in no call and has made none
IdleThread ==
    [pc |-> "idle", op |-> "none", commands |-> <<>>, sent |-> 0,
     muted_arg |-> FALSE, profile_arg |-> DEFAULT_TCI_PROFILE, result |-> NoResult]

\* __init__, lines 25-33
TCIIdle ==
    /\ _lock = NoThread
    /\ _ws = NoSocket
    /\ last_error = ""
    /\ last_command = <<>>
    /\ muted = FALSE
    /\ profile = DEFAULT_TCI_PROFILE
    /\ sockets = {}
    /\ received = NoCommand
    /\ threads = [t \in Threads |-> IdleThread]
    /\ calls = 0

(***************************************************************************)
(* Applying _extract_day_set to the day texts made of at most MaxTokens    *)
(* tokens                                                                  *)
(***************************************************************************)
MaxTokens == 3

DayTokens ==
    {CodeChars[d] : d \in DayCodes}
        \cup {<<"1">>, <<"7">>, <<"8">>, <<"-">>, <<"endash">>, <<" ">>, <<"x">>,
              <<"M","o">>, <<"d","a","i","l","y">>, <<"D","a","i","l","y">>}

RECURSIVE TextsOf(_)
TextsOf(n) ==
    IF n = 0 THEN {<<>>}
    ELSE LET shorter == TextsOf(n - 1)
         IN  shorter \cup {t \o k : t \in shorter, k \in DayTokens}

DayTexts == TextsOf(MaxTokens)

\* the variables of the functions that are not being applied
MergeIdle == raw_entries = <<>> /\ merged = Returned(<<>>) /\ view = NoView

LiveIdle == entry = <<>> /\ now_utc = <<>> /\ is_live_now = FALSE

DaysIdle == days = <<>> /\ found_days = NoDaySet

InitDays ==
    /\ pc = "days_arg"
    /\ days \in DayTexts
    /\ found_days = NoDaySet
    /\ MergeIdle
    /\ LiveIdle
    /\ TCIIdle

\* found_days = _extract_day_set(days)
ParseDays ==
    /\ pc = "days_arg"
    /\ found_days' = ExtractDaySet(days)
    /\ pc' = "days_ret"
    /\ UNCHANGED <<days, raw_entries, merged, view, entry, now_utc, is_live_now, tci_vars>>

NextDays == ParseDays

SpecDays == InitDays /\ [][NextDays]_vars

(***************************************************************************)
(* Applying _merge_entries, and then the view builders, to the lists of at *)
(* most MaxRaw raw entries                                                 *)
(***************************************************************************)
MaxRaw == 2

T0600 == <<"0","6","0","0">>

T0700 == <<"0","7","0","0">>

TimePairs == {<<T0600, T0700>>, <<<<"a","b">>, T0700>>}

MergeDayTexts ==
    {<<"m","o">>, <<"w","e">>, <<"t","u","-","s","u">>,
     <<"x","y","z">>, <<"X","Y","Z">>}

Raw(frequency_khz, times, days_text, station) ==
    [frequency_khz |-> frequency_khz,
     time_on |-> times[1],
     time_off |-> times[2],
     days |-> days_text,
     itu |-> <<"G">>,
     station |-> station,
     language |-> <<"E">>,
     target |-> <<"E","u">>,
     remarks |-> <<>>]

BBC == <<"B","B","C">>

RawUniverse ==
    {Raw(f, t, d, BBC) : f \in {FreqInt(0), FreqInt(7)}, t \in TimePairs, d \in MergeDayTexts}
        \cup {Raw(f, <<T0600, T0700>>, <<"m","o">>, BBC) :
                 f \in {FreqAbsent, FreqStr(<<>>), FreqStr(<<"a","b","c">>),
                        FreqInt(9), FreqStr(<<" ","9">>)}}
        \cup {Raw(FreqInt(7), <<T0600, T0700>>, <<"m","o">>, <<" ","V","o","a"," ">>)}

RawLists == UNION {[1..n -> RawUniverse] : n \in 0..MaxRaw}

InitMerge ==
    /\ pc = "merge_arg"
    /\ raw_entries \in RawLists
    /\ merged = Returned(<<>>)
    /\ view = NoView
    /\ DaysIdle
    /\ LiveIdle
    /\ TCIIdle

\* merged_entries = _merge_entries(source.get("entries", []))
Merge ==
    /\ pc = "merge_arg"
    /\ merged' = MergeEntries(raw_entries)
    /\ pc' = "merge_ret"
    /\ UNCHANGED <<days, found_days, raw_entries, view, entry, now_utc, is_live_now, tci_vars>>

\* index() builds the projection of one request from the list that
\* _merge_entries returned to it
CanBuild == pc = "merge_ret" /\ ~merged.raised

\* columns = _build_columns(merged_entries)
Columns ==
    /\ CanBuild
    /\ view' = ColumnsView(BuildColumns(merged.entries))
    /\ pc' = "view"
    /\ UNCHANGED <<days, found_days, raw_entries, merged, entry, now_utc, is_live_now, tci_vars>>

\* freq_plot = _build_freq_time_plot(merged_entries)
FreqTimePlot ==
    /\ CanBuild
    /\ view' = PlotView(BuildFreqTimePlot(merged.entries))
    /\ pc' = "view"
    /\ UNCHANGED <<days, found_days, raw_entries, merged, entry, now_utc, is_live_now, tci_vars>>

\* "freq_jumps": _build_freq_jumps(merged_entries, segments=10)
FreqJumps ==
    /\ CanBuild
    /\ view' = JumpsView(BuildFreqJumps(merged.entries, Segments))
    /\ pc' = "view"
    /\ UNCHANGED <<days, found_days, raw_entries, merged, entry, now_utc, is_live_now, tci_vars>>

\* time_slots, day_rows = _build_time_day_grid(merged_entries)
TimeDayGrid ==
    /\ CanBuild
    /\ view' = GridView(BuildTimeDayGrid(merged.entries))
    /\ pc' = "view"
    /\ UNCHANGED <<days, found_days, raw_entries, merged, entry, now_utc, is_live_now, tci_vars>>

NextMerge == Merge \/ Columns \/ FreqTimePlot \/ FreqJumps \/ TimeDayGrid

SpecMerge == InitMerge /\ [][NextMerge]_vars

(***************************************************************************)
(* Applying _merge_entries, and then the view builders, to the lists of at *)
(* most MaxSchedule raw entries that differ in their times, frequencies    *)
(* and station names                                                       *)
(***************************************************************************)
MaxSchedule == 2

T0000 == <<"0","0","0","0">>

T0100 == <<"0","1","0","0">>

T2400 == <<"2","4","0","0">>

ScheduleTimes ==
    {<<T0000, T0700>>, <<T0600, T0700>>, <<T0600, T0100>>, <<T2400, T0700>>,
     <<<<"a","b">>, T0700>>}

ScheduleUniverse ==
    {Raw(FreqInt(f), t, <<"m","o">>, st) :
        f \in {7, 9}, t \in ScheduleTimes, st \in {BBC, <<"a","b","c">>}}

ScheduleLists == UNION {[1..n -> ScheduleUniverse] : n \in 0..MaxSchedule}

InitSchedule ==
    /\ pc = "merge_arg"
    /\ raw_entries \in ScheduleLists
    /\ merged = Returned(<<>>)
    /\ view = NoView
    /\ DaysIdle
    /\ LiveIdle
    /\ TCIIdle

SpecSchedule == InitSchedule /\ [][NextMerge]_vars

(***************************************************************************)
(* Applying _merge_entries, and then the view builders, to lists of 1 to   *)
(* MaxFreqs raw entries of distinct positive frequencies: the frequencies  *)
(* base, base + step, ..., listed upwards or downwards                     *)
(***************************************************************************)
MaxFreqs == 25

FreqBases == {1, 1000}

FreqSteps == {1, 5}

FreqEntry(f) == Raw(FreqInt(f), <<T0600, T0700>>, <<"m","o">>, BBC)

Upwards(n, base, step) == [k \in 1..n |-> FreqEntry(base + ((k - 1) * step))]

Downwards(n, base, step) == [k \in 1..n |-> FreqEntry(base + ((n - k) * step))]

FreqLists ==
    {Upwards(n, base, step) : n \in 1..MaxFreqs, base \in FreqBases, step \in FreqSteps}
        \cup {Downwards(n, base, step) :
                 n \in 1..MaxFreqs, base \in FreqBases, step \in FreqSteps}

InitJumps ==
    /\ pc = "merge_arg"
    /\ raw_entries \in FreqLists
    /\ merged = Returned(<<>>)
    /\ view = NoView
    /\ DaysIdle
    /\ LiveIdle
    /\ TCIIdle

SpecJumps == InitJumps /\ [][NextMerge]_vars

(***************************************************************************)
(* TCIClient: the calls of the threads.  A thread begins a call (the code  *)
(* before "with self._lock"), waits for the lock, takes it, runs the body  *)
(* of the with block one transmit at a time, and returns, which releases   *)
(* the lock.  A transmit, and create_connection, may raise at any time.    *)
(* At most MaxCalls calls are begun.                                       *)
(***************************************************************************)
MaxCalls == 3

SendOps == {"tune", "send_spot", "send_raw", "set_mute"}

\* mode arguments of tune, and command arguments of send_raw
Modes == {<<>>, <<"A","M">>}

RawCommands == {<<" ">>, <<"x">>, <<"x",";">>}

\* tune, lines 86-106
TuneCommands(mode, prof) ==
    LET mode_value == Lower(Strip(mode))
        ModeCmd(kind) == [kind |-> kind, text |-> mode_value]
    IN  <<Cmd("vfo:0,0")>> \o
        (IF mode_value = <<>> THEN <<>>
         ELSE IF prof = "thetis"
              THEN <<ModeCmd("modulation:0,0"), ModeCmd("modulation:0")>>
              ELSE <<ModeCmd("modulation:0,0"), ModeCmd("modulation:0"),
                     ModeCmd("mode:0,0")>>)

\* send_spot, lines 168-174: one command for either profile
SpotCommands == <<Cmd("SPOT")>>

\* send_raw, lines 195-199: cmd after strip() and the closing ";"
RawText(command) ==
    LET cmd == Strip(command)
    IN  IF cmd = <<>> THEN <<>>
        ELSE IF cmd[Len(cmd)] # ";" THEN Append(cmd, ";") ELSE cmd

\* set_mute, lines 215-226
MuteCommands(muted_arg) ==
    LET value == IF muted_arg THEN <<"1">> ELSE <<"0">>
        bool_token == IF muted_arg THEN <<"t","r","u","e">> ELSE <<"f","a","l","s","e">>
    IN  <<[kind |-> "mute:", text |-> value],
          [kind |-> "mute:0,", text |-> value],
          [kind |-> "mute:", text |-> bool_token],
          [kind |-> "mute:0,", text |-> bool_token],
          [kind |-> "audio_mute:", text |-> value],
          [kind |-> "audio_mute:0,", text |-> value],
          [kind |-> "rx_mute:", text |-> value],
          [kind |-> "rx_mute:0,", text |-> value]>>

InitTCI ==
    /\ pc = "tci"
    /\ DaysIdle
    /\ MergeIdle
    /\ LiveIdle
    /\ TCIIdle

\* thread t goes on to wait for the lock, in a call of op with these commands
Begin(t, op, commands, muted_arg, profile_arg) ==
    /\ threads' = [threads EXCEPT ![t] =
                      [pc |-> "acquire", op |-> op, commands |-> commands, sent |-> 0,
                       muted_arg |-> muted_arg, profile_arg |-> profile_arg,
                       result |-> NoResult]]
    /\ calls' = calls + 1
    /\ UNCHANGED <<_lock, _ws, last_error, last_command, muted, profile, sockets, received>>

CanCall(t) == threads[t].pc = "idle" /\ calls < MaxCalls

\* tune up to "with self._lock": self.profile is read without the lock
CallTune(t) ==
    /\ CanCall(t)
    /\ \E mode \in Modes :
           Begin(t, "tune", TuneCommands(mode, profile), FALSE, DEFAULT_TCI_PROFILE)
    /\ UNCHANGED schedule_vars

CallSendSpot(t) ==
    /\ CanCall(t)
    /\ Begin(t, "send_spot", SpotCommands, FALSE, DEFAULT_TCI_PROFILE)
    /\ UNCHANGED schedule_vars

\* send_raw up to "with self._lock"; an empty command returns at once
CallSendRaw(t) ==
    /\ CanCall(t)
    /\ \E command \in RawCommands :
           IF RawText(command) = <<>>
           THEN /\ threads' = [threads EXCEPT ![t] =
                                  [IdleThread EXCEPT !.op = "send_raw",
                                                     !.result = Failure("Empty command")]]
                /\ calls' = calls + 1
                /\ UNCHANGED <<_lock, _ws, last_error, last_command, muted, profile,
                               sockets, received>>
           ELSE Begin(t, "send_raw", <<RawCmd(RawText(command))>>, FALSE, DEFAULT_TCI_PROFILE)
    /\ UNCHANGED schedule_vars

CallSetMute(t) ==
    /\ CanCall(t)
    /\ \E muted_arg \in BOOLEAN :
           Begin(t, "set_mute", MuteCommands(muted_arg), muted_arg, DEFAULT_TCI_PROFILE)
    /\ UNCHANGED schedule_vars

\* connect, status, disconnect and configure up to "with self._lock"
CallOther(t) ==
    /\ CanCall(t)
    /\ \/ \E op \in {"connect", "disconnect", "status"} :
              Begin(t, op, <<>>, FALSE, DEFAULT_TCI_PROFILE)
       \/ \E profile_arg \in VALID_TCI_PROFILES :
              Begin(t, "configure", <<>>, FALSE, profile_arg)
    /\ UNCHANGED schedule_vars

\* the mutant lock that any thread takes at any time
CanAcquireAlways == TRUE

\* threading.Lock: it is taken only when no thread holds it
CanAcquire == _lock = NoThread

\* "with self._lock:" entered
Acquire(t) ==
    /\ threads[t].pc = "acquire"
    /\ CanAcquire
    /\ _lock' = t
    /\ threads' = [threads EXCEPT ![t].pc = "locked"]
    /\ UNCHANGED <<_ws, last_error, last_command, muted, profile, sockets, received, calls>>
    /\ UNCHANGED schedule_vars

\* the with block left by a return: the lock is released if t holds it
Return(t, result) ==
    /\ threads' = [threads EXCEPT ![t].pc = "idle", ![t].result = result]
    /\ _lock' = IF _lock = t THEN NoThread ELSE _lock

\* _disconnect_locked: sockets after close(), and _ws is None then; close()
\* ends the connection also when it raises, which the code passes over
Disconnected == IF _ws # NoSocket THEN sockets \ {_ws} ELSE sockets

\* "if self._ws is None" of a send operation
CheckConnected(t) ==
    /\ threads[t].pc = "locked"
    /\ threads[t].op \in SendOps
    /\ IF _ws = NoSocket
       THEN /\ last_error' = "Not connected"
            /\ Return(t, Failure("Not connected"))
       ELSE /\ threads' = [threads EXCEPT ![t].pc = "sending"]
            /\ UNCHANGED <<_lock, last_error>>
    /\ UNCHANGED <<_ws, last_command, muted, profile, sockets, received, calls>>
    /\ UNCHANGED schedule_vars

\* self._ws.send(cmd) returns; sent.append(cmd); time.sleep
Transmit(t) ==
    /\ threads[t].pc = "sending"
    /\ threads[t].sent < Len(threads[t].commands)
    /\ _ws # NoSocket
    /\ received' = [thread |-> t, cmd |-> threads[t].commands[threads[t].sent + 1]]
    /\ threads' = [threads EXCEPT ![t].sent = @ + 1]
    /\ UNCHANGED <<_lock, _ws, last_error, last_command, muted, profile, sockets, calls>>
    /\ UNCHANGED schedule_vars

\* the mutant except branch that keeps the connection
TransmitFailsKeepsSocket(t) ==
    /\ threads[t].pc = "sending"
    /\ threads[t].sent < Len(threads[t].commands)
    /\ last_error' = "send failed"
    /\ Return(t, Failure("send failed"))
    /\ UNCHANGED <<_ws, sockets, last_command, muted, profile, received, calls>>
    /\ UNCHANGED schedule_vars

\* self._ws.send(cmd) raises: the except branch
TransmitFails(t) ==
    /\ threads[t].pc = "sending"
    /\ threads[t].sent < Len(threads[t].commands)
    /\ last_error' = "send failed"
    /\ sockets' = Disconnected
    /\ _ws' = NoSocket
    /\ Return(t, Failure("send failed"))
    /\ UNCHANGED <<last_command, muted, profile, received, calls>>
    /\ UNCHANGED schedule_vars

\* the loop is over: last_command, last_error and, in set_mute, muted are set
Sent(t) ==
    /\ threads[t].pc = "sending"
    /\ threads[t].sent = Len(threads[t].commands)
    /\ muted' = IF threads[t].op = "set_mute" THEN threads[t].muted_arg ELSE muted
    /\ last_command' = threads[t].commands
    /\ last_error' = ""
    /\ Return(t, Success(threads[t].commands))
    /\ UNCHANGED <<_ws, profile, sockets, received, calls>>
    /\ UNCHANGED schedule_vars

\* the connection that create_connection returns: not the one held so far,
\* and none of the open ones
NewSocket == CHOOSE id \in 1..(Cardinality(sockets) + 2) : id \notin sockets /\ id # _ws

\* the mutant connect that does not close the connection held so far
ConnectKeepsOld(t) ==
    /\ threads[t].pc = "locked"
    /\ threads[t].op = "connect"
    /\ _ws' = NewSocket
    /\ sockets' = sockets \cup {NewSocket}
    /\ last_error' = ""
    /\ Return(t, [NoResult EXCEPT !.ok = TRUE, !.message = "Connected"])
    /\ UNCHANGED <<last_command, muted, profile, received, calls>>
    /\ UNCHANGED schedule_vars

\* connect, lines 60-66: create_connection returns a new connection
Connect(t) ==
    /\ threads[t].pc = "locked"
    /\ threads[t].op = "connect"
    /\ _ws' = NewSocket
    /\ sockets' = Disconnected \cup {NewSocket}
    /\ last_error' = ""
    /\ Return(t, [NoResult EXCEPT !.ok = TRUE, !.message = "Connected"])
    /\ UNCHANGED <<last_command, muted, profile, received, calls>>
    /\ UNCHANGED schedule_vars

\* connect, lines 67-70: create_connection raises
ConnectFails(t) ==
    /\ threads[t].pc = "locked"
    /\ threads[t].op = "connect"
    /\ sockets' = Disconnected
    /\ _ws' = NoSocket
    /\ last_error' = "connect failed"
    /\ Return(t, Failure("connect failed"))
    /\ UNCHANGED <<last_command, muted, profile, received, calls>>
    /\ UNCHANGED schedule_vars

\* disconnect
Disconnect(t) ==
    /\ threads[t].pc = "locked"
    /\ threads[t].op = "disconnect"
    /\ sockets' = Disconnected
    /\ _ws' = NoSocket
    /\ Return(t, NoResult)
    /\ UNCHANGED <<last_error, last_command, muted, profile, received, calls>>
    /\ UNCHANGED schedule_vars

\* status
Status(t) ==
    /\ threads[t].pc = "locked"
    /\ threads[t].op = "status"
    /\ Return(t, [NoResult EXCEPT !.ok = TRUE, !.message = "status",
                                   !.connected = (_ws # NoSocket)])
    /\ UNCHANGED <<_ws, last_error, last_command, muted, profile, sockets, received, calls>>
    /\ UNCHANGED schedule_vars

\* configure, lines 50-55
Configure(t) ==
    /\ threads[t].pc = "locked"
    /\ threads[t].op = "configure"
    /\ profile' = threads[t].profile_arg
    /\ Return(t, NoResult)
    /\ UNCHANGED <<_ws, last_error, last_command, muted, sockets, received, calls>>
    /\ UNCHANGED schedule_vars

NextTCI ==
    \E t \in Threads :
        \/ CallTune(t)
        \/ CallSendSpot(t)
        \/ CallSendRaw(t)
        \/ CallSetMute(t)
        \/ CallOther(t)
        \/ Acquire(t)
        \/ CheckConnected(t)
        \/ Transmit(t)
        \/ TransmitFails(t)
        \/ Sent(t)
        \/ Connect(t)
        \/ ConnectFails(t)
        \/ Disconnect(t)
        \/ Status(t)
        \/ Configure(t)

SpecTCI == InitTCI /\ [][NextTCI]_vars

(***************************************************************************)
(* Applying _is_live_now to the canonical entries that _merge_entries      *)
(* returns for one raw entry, at instants of every day of the week         *)
(***************************************************************************)
LiveTimeTexts ==
    {<<"2","3","0","0">>, <<"0","1","0","0">>, T0600, <<"6","0","0">>,
     <<"2","4","0","0">>, <<"0","0","0","0">>, <<"2","3","6","0">>, <<"a","b">>,
     <<"2","4","3","0">>}

LiveDayTexts == {<<"m","o">>, <<"s","a","-","m","o">>, <<"x","y","z">>}

LiveEntries ==
    {MergeEntries(<<Raw(FreqInt(7), <<on, off>>, d, BBC)>>).entries[1] :
        on \in LiveTimeTexts, off \in LiveTimeTexts, d \in LiveDayTexts}

SampleHours == {0, 1, 5, 6, 7, 12, 22, 23}

SampleMinutes == {0, 30, 59}

Instants ==
    [weekday : 0..(Len(DAY_ORDER) - 1), hour : SampleHours, minute : SampleMinutes]

InitLive ==
    /\ pc = "live_arg"
    /\ entry \in LiveEntries
    /\ now_utc \in Instants
    /\ is_live_now = FALSE
    /\ DaysIdle
    /\ MergeIdle
    /\ TCIIdle

\* entry["is_live_now"] = _is_live_now(entry, now_utc)
StampLive ==
    /\ pc = "live_arg"
    /\ is_live_now' = IsLiveNow(entry, now_utc)
    /\ pc' = "live_ret"
    /\ UNCHANGED <<days, found_days, raw_entries, merged, view, entry, now_utc, tci_vars>>

NextLive == StampLive

SpecLive == InitLive /\ [][NextLive]_vars

(***************************************************************************)
(* C7, C8: the day text parser                                             *)
(***************************************************************************)
\* the days visited walking forward from a to b through the week, a and b included
ForwardWalk(a, b) ==
    LET n == Len(DAY_ORDER)
        steps == (DayIndex(b) - DayIndex(a) + n) % n
    IN  {DayAt((DayIndex(a) + k) % n) : k \in 0..steps}

\* C7: for every pair of week day abbreviations A, B, the days parsed from the
\* text "A-B" are exactly the days of the forward walk from A to B, which wraps
\* from Sunday to Monday when A comes after B.
C7_RangeIsForwardWalk ==
    pc = "days_ret" =>
        \A a \in DayCodes, b \in DayCodes :
            days = CodeChars[a] \o <<"-">> \o CodeChars[b]
                => found_days = SomeDaySet(ForwardWalk(a, b))

\* "fr-mo" has been parsed to {fr, sa, su, mo}
C7_Witness ==
    /\ pc = "days_ret"
    /\ days = <<"f","r","-","m","o">>
    /\ found_days = SomeDaySet({"fr", "sa", "su", "mo"})

\* the text holds a digit 1..7
HasDayDigit(text) ==
    \E i \in 1..Len(text) : text[i] \in {"1","2","3","4","5","6","7"}

\* the positions of the text (lower-cased) where a week day abbreviation stands
AbbrevPositions(text) == {i \in 1..Len(text) : AbbrevAt(Lower(text), i)}

\* the days named by a digit, and the days named by an abbreviation
NamedDays(text) ==
    {DAY_ORDER[n] : n \in {k \in 1..7 : \E i \in 1..Len(text) : text[i] = Digits[k + 1]}}
        \cup {AbbrevOf(Lower(text), i) : i \in AbbrevPositions(text)}

\* only white space and exactly one dash stand between positions i and j
DashBetween(text, i, j) ==
    /\ \A k \in i..j : text[k] \in WhiteSpace \cup Dashes
    /\ Cardinality({k \in i..j : text[k] \in Dashes}) = 1

\* the days of every range "A-B" that stands in the text
RangeDays(text) ==
    UNION {ForwardWalk(AbbrevOf(Lower(text), i), AbbrevOf(Lower(text), j)) :
              <<i, j>> \in {p \in AbbrevPositions(text) \X AbbrevPositions(text) :
                               p[1] + 2 < p[2] /\ DashBetween(text, p[1] + 2, p[2] - 1)}}

\* what C8 says of a text that is not taken for the full week
ParsedFromTokens(text, result) ==
    /\ result.none <=> (~HasDayDigit(text) /\ AbbrevPositions(text) = {})
    /\ ~result.none =>
          /\ result.set # {}
          /\ NamedDays(text) \subseteq result.set
          /\ result.set \subseteq NamedDays(text) \cup RangeDays(text)
          /\ RangeDays(text) = {} => result.set = NamedDays(text)

\* C8 as stated: the full week, known, for the empty text and for a text that
\* contains "daily"; for any other text, unknown exactly when the text holds no
\* digit 1..7 and no week day abbreviation, else the non-empty union of the days.
C8_AsStated ==
    pc = "days_ret" =>
        IF days = <<>> \/ Contains(Lower(days), <<"d","a","i","l","y">>)
        THEN found_days = SomeDaySet(DayCodes)
        ELSE ParsedFromTokens(days, found_days)

\* C8, amended: the full week is also returned for a text of white space only
\* (the text is stripped before it is tested for emptiness).
C8_ParseDays ==
    pc = "days_ret" =>
        IF Strip(days) = <<>> \/ Contains(Lower(days), <<"d","a","i","l","y">>)
        THEN found_days = SomeDaySet(DayCodes)
        ELSE ParsedFromTokens(days, found_days)

\* a text of white space only has been parsed to the full week
C8_Witness ==
    /\ pc = "days_ret"
    /\ days = <<" ">>
    /\ found_days = SomeDaySet(DayCodes)

(***************************************************************************)
(* C1, C2, C3, C9, C10: the merge engine and the projections               *)
(***************************************************************************)
MergeReturned == pc = "merge_ret" /\ ~merged.raised

ViewBuilt == pc = "view" /\ ~merged.raised

\* the eight fields of the merge key that are not the day identity
SlotOfNormalized(n) ==
    <<n.frequency_khz, n.time_on, n.time_off, n.itu, n.station, n.language,
      n.target, n.remarks>>

\* the day identity of a canonical entry: the sentinel for a known day set, the
\* lower-cased raw day text otherwise
IdentityOf(e) == IF e.day_set_known THEN <<"parsed">> ELSE <<"raw", Lower(e.days_raw)>>

NineTuple(e) == <<SlotOfNormalized(e), IdentityOf(e)>>

ThreeLetters ==
    <<<<"M","o","n">>, <<"T","u","e">>, <<"W","e","d">>, <<"T","h","u">>,
      <<"F","r","i">>, <<"S","a","t">>, <<"S","u","n">>>>

WeekCodes == <<"mo", "tu", "we", "th", "fr", "sa", "su">>

\* the Monday-first comma-joined rendering of a set of days, "Daily" for all seven
RECURSIVE LabelFrom(_, _)
LabelFrom(S, i) ==
    IF i > 7 THEN <<>>
    ELSE IF WeekCodes[i] \notin S THEN LabelFrom(S, i + 1)
    ELSE IF \E k \in (i + 1)..7 : WeekCodes[k] \in S
         THEN ThreeLetters[i] \o <<",">> \o LabelFrom(S, i + 1)
         ELSE ThreeLetters[i]

MondayFirstLabel(S) ==
    IF S = {"mo", "tu", "we", "th", "fr", "sa", "su"} THEN <<"D","a","i","l","y">>
    ELSE LabelFrom(S, 1)

SeqToSet(q) == {q[i] : i \in 1..Len(q)}

\* the raw entries of raw_entries that share the slot of entry i and whose day
\* text parses to a known day set
KnownMates(i) ==
    {k \in 1..Len(raw_entries) :
        /\ SlotOfNormalized(NormalizeEntry(raw_entries[k]))
               = SlotOfNormalized(NormalizeEntry(raw_entries[i]))
        /\ ~ExtractDaySet(raw_entries[k].days).none}

\* C1: two raw entries that agree on frequency, time-on, time-off, origin,
\* station, language, target and remarks and whose day texts both parse to a
\* known day set are merged into exactly one canonical entry; its day set is the
\* union of the parsed day sets (of the raw entries of that slot) and its label
\* is the Monday-first comma-joined rendering of the union, "Daily" for all seven.
C1_MergeUnionsDays ==
    MergeReturned =>
        \A i \in 1..Len(raw_entries), j \in 1..Len(raw_entries) :
            (i # j /\ i \in KnownMates(i) /\ j \in KnownMates(i)) =>
                LET union == UNION {ExtractDaySet(raw_entries[k].days).set : k \in KnownMates(i)}
                    theirs == {m \in 1..Len(merged.entries) :
                                  /\ SlotOfNormalized(merged.entries[m])
                                         = SlotOfNormalized(NormalizeEntry(raw_entries[i]))
                                  /\ merged.entries[m].day_set_known}
                IN  /\ Cardinality(theirs) = 1
                    /\ \A m \in theirs :
                          /\ SeqToSet(merged.entries[m].day_set) = union
                          /\ merged.entries[m].day_set = OrderedDays(union)
                          /\ merged.entries[m].days = MondayFirstLabel(union)

\* two entries that differ in their day texts "mo" and "we" only have been merged
\* into one entry, with day set {mo, we} and label "Mon,Wed"
C1_Witness ==
    /\ pc = "merge_ret"
    /\ Len(raw_entries) = 2
    /\ raw_entries[1].days = <<"m","o">>
    /\ raw_entries[2] = [raw_entries[1] EXCEPT !.days = <<"w","e">>]
    /\ ~merged.raised
    /\ Len(merged.entries) = 1
    /\ merged.entries[1].day_set = <<"mo", "we">>
    /\ merged.entries[1].days = <<"M","o","n",",","W","e","d">>

\* C2: the list returned by merge holds no two canonical entries with the same
\* 9-tuple (frequency, time-on, time-off, origin, station, language, target,
\* remarks, day identity).
C2_NoDuplicateKey ==
    MergeReturned =>
        \A i \in 1..Len(merged.entries), j \in 1..Len(merged.entries) :
            i # j => NineTuple(merged.entries[i]) # NineTuple(merged.entries[j])

\* two entries whose unparsed day texts differ in case only have been merged
C2_Witness ==
    /\ pc = "merge_ret"
    /\ Len(raw_entries) = 2
    /\ raw_entries[1].days = <<"x","y","z">>
    /\ raw_entries[2] = [raw_entries[1] EXCEPT !.days = <<"X","Y","Z">>]
    /\ ~merged.raised
    /\ Len(merged.entries) = 1
    /\ ~merged.entries[1].day_set_known

\* a canonical entry fed back as a raw entry: its day text is the day label
Refeed(e) ==
    [frequency_khz |-> FreqInt(e.frequency_khz),
     time_on |-> e.time_on,
     time_off |-> e.time_off,
     days |-> e.days,
     itu |-> e.itu,
     station |-> e.station,
     language |-> e.language,
     target |-> e.target,
     remarks |-> e.remarks]

MergedAgain == MergeEntries([i \in 1..Len(merged.entries) |-> Refeed(merged.entries[i])])

KeyAndDays(list) ==
    {<<NineTuple(list[i]), list[i].day_set_known, list[i].day_set>> : i \in 1..Len(list)}

\* C3: merge is idempotent: merging the list that merge returned, fed back as
\* raw input, returns the same set of merge keys and, for each key, the same
\* day set.
C3_MergeIdempotent ==
    MergeReturned =>
        LET again == MergedAgain
        IN  /\ ~again.raised
            /\ KeyAndDays(again.entries) = KeyAndDays(merged.entries)

\* a list with a merged label "Mon,Wed" and an unparsed day text has been merged,
\* and merging it again gives the day set {mo, we} again
C3_Witness ==
    /\ pc = "merge_ret"
    /\ ~merged.raised
    /\ \E i \in 1..Len(merged.entries) :
          /\ merged.entries[i].days = <<"M","o","n",",","W","e","d">>
          /\ \E k \in 1..Len(MergedAgain.entries) :
                /\ NineTuple(MergedAgain.entries[k]) = NineTuple(merged.entries[i])
                /\ MergedAgain.entries[k].day_set = <<"mo", "we">>

\* the frequency field is absent, empty or not a number
FrequencyMissing(f) ==
    \/ f.kind = "absent"
    \/ f.kind = "str" /\ ~IsDigit(Strip(f.str))

\* C9: whatever the frequency field of a raw entry holds, merge returns, the
\* entry is not dropped, and a missing or non-numeric frequency becomes 0.
C9_MalformedFrequencyIsZero ==
    pc = "merge_ret" =>
        /\ ~merged.raised
        /\ \A i \in 1..Len(raw_entries) :
              \E m \in 1..Len(merged.entries) :
                  /\ merged.entries[m].station = Strip(raw_entries[i].station)
                  /\ merged.entries[m].time_on = Strip(raw_entries[i].time_on)
                  /\ FrequencyMissing(raw_entries[i].frequency_khz)
                         => merged.entries[m].frequency_khz = 0

\* the canonical entries with frequency 0
ZeroEntries == {i \in 1..Len(merged.entries) : merged.entries[i].frequency_khz = 0}

\* the number of places of the column that hold the entry
PlacesIn(column, e) == Cardinality({k \in 1..Len(column.entries) : column.entries[k] = e})

\* C10: a canonical entry whose frequency is 0 yields no point of the scatter and
\* no frequency of the jump markers, and stands in exactly one column of the Time
\* Columns projection.
C10_ZeroFrequencyProjections ==
    ViewBuilt =>
        /\ view.mode = "freqgrid" =>
              /\ \A k \in 1..Len(view.points) : view.points[k].freq_khz > 0
              /\ Len(view.points) <= Len(merged.entries) - Cardinality(ZeroEntries)
        /\ view.mode = "freq_jumps" =>
              \A k \in 1..Len(view.freq_jumps) :
                  view.freq_jumps[k].start_khz > 0 /\ view.freq_jumps[k].end_khz > 0
        /\ view.mode = "columns" =>
              \A i \in ZeroEntries :
                  /\ Cardinality({c \in 1..Len(view.columns) :
                                     PlacesIn(view.columns[c], merged.entries[i]) > 0}) = 1
                  /\ \A c \in 1..Len(view.columns) :
                         PlacesIn(view.columns[c], merged.entries[i]) <= 1

\* the jump markers have been built from a list that holds an entry of frequency
\* 0 and an entry of frequency 7
C10_Witness ==
    /\ pc = "view"
    /\ view.mode = "freq_jumps"
    /\ ZeroEntries # {}
    /\ Len(view.freq_jumps) = Segments
    /\ view.freq_jumps[1].start_khz = 7

(***************************************************************************)
(* C4, C5, C6: the liveness test                                           *)
(***************************************************************************)
At(weekday, hour, minute) == [weekday |-> weekday, hour |-> hour, minute |-> minute]

Monday == DayIndex("mo")

Tuesday == DayIndex("tu")

\* the entry of C4: time-on "2300", time-off "0100", known day set {mo}
IsOvernightMonday(e) ==
    /\ e.time_on = <<"2","3","0","0">>
    /\ e.time_off = <<"0","1","0","0">>
    /\ e.day_set_known
    /\ e.day_set = <<"mo">>

\* C4 as stated: the entry is live at Monday 23:30 UTC and also at Tuesday 00:30 UTC.
C4_AsStated ==
    (pc = "live_ret" /\ IsOvernightMonday(entry)) =>
        /\ now_utc = At(Monday, 23, 30) => is_live_now
        /\ now_utc = At(Tuesday, 0, 30) => is_live_now

\* C4, amended: the entry is live at Monday 23:30 UTC and is not live at Tuesday
\* 00:30 UTC, because Tuesday is not in its day set; the part of the window after
\* midnight is live on a day of the day set, at Monday 00:30 UTC.
C4_OvernightWindow ==
    (pc = "live_ret" /\ IsOvernightMonday(entry)) =>
        /\ now_utc = At(Monday, 23, 30) => is_live_now
        /\ now_utc = At(Tuesday, 0, 30) => ~is_live_now
        /\ now_utc = At(Monday, 0, 30) => is_live_now

\* the entry has been tested at Tuesday 00:30 UTC and is not live
C4_Witness ==
    /\ pc = "live_ret"
    /\ IsOvernightMonday(entry)
    /\ now_utc = At(Tuesday, 0, 30)
    /\ ~is_live_now

\* C5: an entry with a known day set is live only if the week day of the current
\* UTC day is in its day set, also when its window crosses midnight: the week day
\* on which the window started is never consulted.
C5_LiveOnlyOnDayOfSet ==
    (pc = "live_ret" /\ entry.day_set_known /\ is_live_now) =>
        DAY_ORDER[now_utc.weekday + 1] \in SeqToSet(entry.day_set)

\* an entry of Monday whose window started on Sunday evening is live at Monday
\* 00:30, and the same window is not live at Tuesday 00:30
C5_Witness ==
    /\ pc = "live_ret"
    /\ IsOvernightMonday(entry)
    /\ now_utc = At(Monday, 0, 30)
    /\ is_live_now

\* the week day rule of a canonical entry: a day of a known day set, any day
\* when no day set could be parsed
OnMatchingDay(e, weekday) ==
    e.day_set_known => DAY_ORDER[weekday + 1] \in SeqToSet(e.day_set)

\* time-on and time-off are valid HHMM values of the same minute
SameMinute(e) ==
    LET on == ZFill(Strip(e.time_on), 4)
        off == ZFill(Strip(e.time_off), 4)
    IN  /\ IsDigit(Strip(e.time_on)) /\ IsDigit(Strip(e.time_off))
        /\ Len(on) = 4 /\ Len(off) = 4
        /\ on = off
        /\ on = <<"2","4","0","0">>
              \/ (IntOfDigits(SubSeq(on, 1, 2)) <= 23 /\ IntOfDigits(SubSeq(on, 3, 4)) <= 59)

\* C6: an entry whose time-on and time-off are valid and denote the same minute
\* is live at every minute 0..1439 of every day that matches its week day rule.
\* (The minutes of a day are all tested once per entry and day, in the states
\* whose instant is the day's midnight.)
C6_SameMinuteAlwaysOn ==
    (pc = "live_ret" /\ SameMinute(entry) /\ OnMatchingDay(entry, now_utc.weekday)) =>
        /\ is_live_now
        /\ (now_utc.hour = 0 /\ now_utc.minute = 0) =>
              \A m \in 0..1439 :
                  IsLiveNow(entry, At(now_utc.weekday, m \div 60, m % 60))

\* an entry "0600"/"600" of Monday has been tested at Monday 12:30 and is live
C6_Witness ==
    /\ pc = "live_ret"
    /\ entry.time_on = T0600
    /\ entry.time_off = <<"6","0","0">>
    /\ entry.day_set = <<"mo">>
    /\ now_utc = At(Monday, 12, 30)
    /\ is_live_now

(***************************************************************************)
(* C11: the order of the list that _merge_entries returns                  *)
(***************************************************************************)
Parses(e) == ParseHHMM(e.time_on) # NoTime

\* s = t, or s comes before t in the order of the code points
StrLeq(s, t) == s = t \/ StrLess(s, t)

\* <<time-off, frequency, lower-cased station>> of a is at most that of b
RestLeq(a, b) ==
    \/ StrLess(a.time_off, b.time_off)
    \/ /\ a.time_off = b.time_off
       /\ \/ a.frequency_khz < b.frequency_khz
          \/ /\ a.frequency_khz = b.frequency_khz
             /\ StrLeq(Lower(a.station), Lower(b.station))

\* C11: in the list merge returns, no entry whose time-on does not parse
\* stands before one whose time-on parses ("2400" parses), two entries whose
\* time-on parses stand in ascending order of (start minute, time-off text,
\* frequency, lower-cased station), and two entries whose time-on does not
\* parse in ascending order of (time-off text, frequency, lower-cased station)
C11_MergedIsSorted ==
    MergeReturned =>
        \A i, j \in 1..Len(merged.entries) :
            i < j =>
                LET a == merged.entries[i]
                    b == merged.entries[j]
                IN  /\ Parses(b) => Parses(a)
                    /\ Parses(a) /\ Parses(b) =>
                           \/ ParseHHMM(a.time_on) < ParseHHMM(b.time_on)
                           \/ /\ ParseHHMM(a.time_on) = ParseHHMM(b.time_on)
                              /\ RestLeq(a, b)
                    /\ ~Parses(a) /\ ~Parses(b) => RestLeq(a, b)

\* merge was given the entry whose time-on does not parse first, then the one
\* that starts at "2400", and returned them the other way round
C11_Witness ==
    /\ MergeReturned
    /\ Len(raw_entries) = 2
    /\ Strip(raw_entries[1].time_on) = <<"a","b">>
    /\ raw_entries[2].time_on = T2400
    /\ Len(merged.entries) = 2
    /\ merged.entries[1].time_on = T2400
    /\ ~Parses(merged.entries[2])

(***************************************************************************)
(* C12, C13: the frequency jump markers                                    *)
(***************************************************************************)
JumpsBuilt == ViewBuilt /\ view.mode = "freq_jumps"

\* the positive frequencies of the merged list
PositiveFreqs ==
    {merged.entries[i].frequency_khz :
        i \in {j \in 1..Len(merged.entries) : merged.entries[j].frequency_khz > 0}}

\* C12: for a non-empty set of positive frequencies, the builder returns
\* exactly 10 markers, start_khz does not decrease from a marker to the next,
\* and the span of the last marker ends at the largest frequency
C12_TenMarkersUpToLargest ==
    JumpsBuilt /\ PositiveFreqs # {} =>
        /\ Len(view.freq_jumps) = 10
        /\ \A k \in 1..(Len(view.freq_jumps) - 1) :
               view.freq_jumps[k].start_khz <= view.freq_jumps[k + 1].start_khz
        /\ view.freq_jumps[Len(view.freq_jumps)].end_khz = SetMax(PositiveFreqs)

\* the markers of the frequencies 1..25: the last one ends at 25
C12_Witness ==
    /\ JumpsBuilt
    /\ PositiveFreqs = 1..25
    /\ Len(view.freq_jumps) = 10
    /\ view.freq_jumps[10].end_khz = 25

\* the number of indices of the bucket of marker k
BucketSize(k) == (view.freq_jumps[k].end_idx - view.freq_jumps[k].start_idx) + 1

\* the buckets are not empty, the first starts at index 0, each next one
\* starts right after the one before ends, and the last ends at index n - 1
BucketsPartition(n) ==
    LET jumps == view.freq_jumps
    IN  /\ jumps[1].start_idx = 0
        /\ jumps[Len(jumps)].end_idx = n - 1
        /\ \A k \in 1..Len(jumps) : jumps[k].start_idx <= jumps[k].end_idx
        /\ \A k \in 1..(Len(jumps) - 1) : jumps[k + 1].start_idx = jumps[k].end_idx + 1

\* C13: the buckets of the markers partition the indices 0..n-1, every
\* bucket but the last holds the same number of indices, and the last holds
\* that number plus the remainder of n over the 10 buckets
C13_EqualBuckets ==
    JumpsBuilt /\ PositiveFreqs # {} =>
        LET n == Cardinality(PositiveFreqs)
            jumps == view.freq_jumps
            size == BucketSize(1)
        IN  /\ BucketsPartition(n)
            /\ \A k \in 1..(Len(jumps) - 1) : BucketSize(k) = size
            /\ BucketSize(Len(jumps)) = size + (n - (Len(jumps) * size))

(***************************************************************************)
(* C14: the corner of the frequency/time scatter                           *)
(***************************************************************************)
PlotBuilt == ViewBuilt /\ view.mode = "freqgrid"

\* the entries that have a point, in the order of their points
PlottedEntries ==
    SelectSeq(merged.entries, LAMBDA e : e.frequency_khz > 0 /\ Parses(e))

\* the earliest start minute of the entries that have a point
EarliestStart == SetMin({ParseHHMM(PlottedEntries[k].time_on) : k \in 1..Len(PlottedEntries)})

\* x and y of point k are the left and the top margin, in hundredths
AtCorner(k) == view.points[k].x = 100 * left /\ view.points[k].y = 100 * top

\* C14 as stated: the point of the entry of the smallest positive frequency
\* and of the earliest start time of the dataset is at (left, top)
C14_AsStated ==
    PlotBuilt =>
        \A k \in 1..Len(PlottedEntries) :
            /\ PlottedEntries[k].frequency_khz = SetMin(PositiveFreqs)
            /\ ParseHHMM(PlottedEntries[k].time_on) = EarliestStart
            => AtCorner(k)

\* C14: the point of an entry of the smallest positive frequency that starts
\* at minute 0 of the day is at (left, top) = (70, 20) exactly
C14_CornerAtMidnight ==
    PlotBuilt =>
        /\ Len(view.points) = Len(PlottedEntries)
        /\ \A k \in 1..Len(PlottedEntries) :
               /\ PlottedEntries[k].frequency_khz = SetMin(PositiveFreqs)
               /\ ParseHHMM(PlottedEntries[k].time_on) = 0
               => AtCorner(k)

\* a plot of two frequencies whose lower one starts at "0000"
C14_Witness ==
    /\ PlotBuilt
    /\ Len(view.points) = 2
    /\ PositiveFreqs = {7, 9}
    /\ \E k \in 1..2 :
           /\ PlottedEntries[k].frequency_khz = 7
           /\ PlottedEntries[k].time_on = T0000
           /\ view.points[k].x = 7000
           /\ view.points[k].y = 2000

(***************************************************************************)
(* C15, C16: the calls of the threads on the shared client                 *)
(***************************************************************************)
\* on this step a transmit of thread t raises
TransmitRaises(t) ==
    /\ threads[t].pc = "sending"
    /\ threads'[t].pc = "idle"
    /\ ~threads'[t].result.ok

\* thread t is at the head of a send operation, the first since a transmit
\* failed and dropped the connection, and takes its step
NextSendAfterFailure(t) ==
    /\ last_error = "send failed"
    /\ _ws = NoSocket
    /\ threads[t].pc = "locked"
    /\ threads[t].op \in SendOps
    /\ threads'[t] # threads[t]

\* C15 as stated: a transmit that fails closes and drops the connection, and
\* the next send operation holds a connection again and goes on to transmit,
\* it does not fail for lack of a connection
C15_NextSendReconnects ==
    [][\A t \in Threads :
          /\ TransmitRaises(t) => _ws' = NoSocket /\ sockets' = sockets \ {_ws}
          /\ NextSendAfterFailure(t) =>
                 /\ _ws' # NoSocket
                 /\ threads'[t].result # Failure("Not connected")]_vars

\* the threads inside "with self._lock"
InLock == {t \in Threads : threads[t].pc \in {"locked", "sending"}}

\* C16: at most one thread at a time is inside the block that transmits on or
\* replaces the connection, and while a call is between two of its commands
\* the command that reached the connection last is the one this call sent
\* last: no command of another call came in between
C16_OneCallAtATime ==
    /\ Cardinality(InLock) <= 1
    /\ \A t \in Threads :
           threads[t].pc = "sending" /\ threads[t].sent >= 1 =>
               received = [thread |-> t, cmd |-> threads[t].commands[threads[t].sent]]

\* thread 1 has sent the vfo command and the first modulation command of a
\* tune while thread 2 waits for the lock with a send operation of its own
C16_Witness ==
    /\ threads[1].pc = "sending"
    /\ threads[1].op = "tune"
    /\ threads[1].sent = 2
    /\ Len(threads[1].commands) = 3
    /\ received.cmd.kind = "modulation:0,0"
    /\ threads[2].pc = "acquire"
    /\ threads[2].op \in SendOps

(***************************************************************************)
(* C17: the live test of an entry on a day that matches its week day rule  *)
(***************************************************************************)
\* the number that the digits of a time text write, e.g. 2300 for "2300"
ClockNumber(text) == IntOfDigits(Strip(text))

\* a valid HHMM value: digits only, and either exactly 2400 or hours of at
\* most 23 with minutes of at most 59
IsClock(text) ==
    /\ IsDigit(Strip(text))
    /\ Len(Strip(text)) <= 4
    /\ \/ ClockNumber(text) = 2400
       \/ (ClockNumber(text) \div 100) <= 23 /\ (ClockNumber(text) % 100) <= 59

\* the minute of the day of a valid HHMM value; 1440 for 2400
ClockMinute(text) == ((ClockNumber(text) \div 100) * 60) + (ClockNumber(text) % 100)

LiveTested == pc = "live_ret"

\* C17: on a day that matches the week day rule of the entry, is_live is false
\* when time-on or time-off is not a valid HHMM value; when start < end it is
\* start <= now_minutes < end; when start > end it is now_minutes >= start or
\* now_minutes < end
C17_LiveWindow ==
    LiveTested /\ OnMatchingDay(entry, now_utc.weekday) =>
        LET valid == IsClock(entry.time_on) /\ IsClock(entry.time_off)
            start == ClockMinute(entry.time_on)
            end == ClockMinute(entry.time_off)
            now_minutes == (now_utc.hour * 60) + now_utc.minute
        IN  /\ ~valid => ~is_live_now
            /\ valid /\ start < end =>
                   (is_live_now <=> (start <= now_minutes /\ now_minutes < end))
            /\ valid /\ start > end =>
                   (is_live_now <=> (now_minutes >= start \/ now_minutes < end))

\* an entry "0000"/"0600" of Monday has been tested at Monday 06:00, the minute
\* its window ends, and is not live
C17_Witness ==
    /\ LiveTested
    /\ entry.time_on = T0000
    /\ entry.time_off = T0600
    /\ entry.day_set = <<"mo">>
    /\ now_utc = At(Monday, 6, 0)
    /\ ~is_live_now

(***************************************************************************)
(* C18: the day/time grid                                                  *)
(***************************************************************************)
GridBuilt == ViewBuilt /\ view.mode = "grid"

\* the entries of the cell of row d and slot k, as a set
CellEntries(d, k) == SeqToSet(view.day_rows[d].cells[k].entries)

\* C18: the grid has the seven rows mo..su, each with one cell per distinct
\* (time-on, time-off) pair of the merged list, and a merged entry is in the
\* cell of day d and slot s, once, exactly when its pair is s and its week
\* day rule matches d: the days of its day set when that is known, every day
\* when it is not
C18_GridCells ==
    GridBuilt =>
        LET slots == view.time_slots
            rows == view.day_rows
            all == SeqToSet(merged.entries)
        IN  /\ Len(rows) = 7
            /\ \A d \in 1..Len(rows) : rows[d].day_code = DAY_ORDER[d]
            /\ {<<slots[k].time_on, slots[k].time_off>> : k \in 1..Len(slots)}
                   = {<<e.time_on, e.time_off>> : e \in all}
            /\ Cardinality({<<e.time_on, e.time_off>> : e \in all}) = Len(slots)
            /\ \A d \in 1..Len(rows) :
                   /\ Len(rows[d].cells) = Len(slots)
                   /\ \A k \in 1..Len(slots) :
                          /\ CellEntries(d, k) =
                                 {e \in all :
                                     /\ <<e.time_on, e.time_off>>
                                            = <<slots[k].time_on, slots[k].time_off>>
                                     /\ OnMatchingDay(e, d - 1)}
                          /\ Len(rows[d].cells[k].entries) = Cardinality(CellEntries(d, k))

\* the grid of an entry of Tuesday to Sunday and an entry of unknown days in
\* another slot: the first is in the rows tu..su only, the second in all
\* seven rows
C18_Witness ==
    /\ GridBuilt
    /\ Len(merged.entries) = 2
    /\ Len(view.time_slots) = 2
    /\ \E k, u \in 1..2 :
           /\ merged.entries[k].day_set = <<"tu", "we", "th", "fr", "sa", "su">>
           /\ ~merged.entries[u].day_set_known
           /\ \E c \in 1..2 :
                  {d \in 1..7 : merged.entries[k] \in CellEntries(d, c)} = 2..7
           /\ \E c \in 1..2 :
                  {d \in 1..7 : merged.entries[u] \in CellEntries(d, c)} = 1..7

(***************************************************************************)
(* C19: a send operation that fails                                        *)
(***************************************************************************)
\* thread t takes a step of a send operation that finds no connection held
FindsNoConnection(t) ==
    /\ threads[t].op \in SendOps
    /\ threads[t].pc = "locked"
    /\ _ws = NoSocket
    /\ threads'[t] # threads[t]

\* thread t takes a step of a send operation, with commands left to send,
\* that transmits none: the transmit raised
TransmitRaised(t) ==
    /\ threads[t].op \in SendOps
    /\ threads[t].pc = "sending"
    /\ threads[t].sent < Len(threads[t].commands)
    /\ threads'[t] # threads[t]
    /\ threads'[t].sent = threads[t].sent

\* C19: a send operation that finds no connection held, or whose transmit
\* raises, returns on that step (False, a message that is not empty) with no
\* further command transmitted and with no connection held by the client; a
\* thread that has returned transmits nothing until it begins a new call (no
\* retry); and muted changes only on the return of a set_mute all of whose
\* commands were transmitted, to the value that call was given
C19_FailedSendStops ==
    [][/\ \A t \in Threads :
             /\ FindsNoConnection(t) \/ TransmitRaised(t) =>
                    /\ threads'[t].pc = "idle"
                    /\ ~threads'[t].result.ok
                    /\ threads'[t].result.message # ""
                    /\ threads'[t].result.message = last_error'
                    /\ received' = received
                    /\ _ws' = NoSocket
                    /\ sockets' = {}
             /\ threads[t].pc = "idle" /\ threads'[t] # threads[t] =>
                    /\ calls' = calls + 1
                    /\ received' = received
                    /\ threads'[t].sent = 0
       /\ muted' # muted =>
             \E t \in Threads :
                 /\ threads[t].op = "set_mute"
                 /\ threads[t].sent = Len(threads[t].commands)
                 /\ Len(threads[t].commands) = 8
                 /\ threads'[t].pc = "idle"
                 /\ threads'[t].result.ok
                 /\ muted' = threads[t].muted_arg]_vars

\* a set_mute(True) whose fourth transmit raised has returned: three commands
\* were sent, muted is unchanged and no connection is held
C19_Witness ==
    \E t \in Threads :
        /\ threads[t].pc = "idle"
        /\ threads[t].op = "set_mute"
        /\ threads[t].muted_arg
        /\ threads[t].sent = 3
        /\ threads[t].result = Failure("send failed")
        /\ received = [thread |-> t, cmd |-> MuteCommands(TRUE)[3]]
        /\ ~muted
        /\ _ws = NoSocket

(***************************************************************************)
(* C20: the live test as a cyclic window, and the value "2400"             *)
(***************************************************************************)
MinutesOfDay == 1440

\* minute m is in the half-open interval that runs from minute a round the
\* clock to minute b; the whole day when a = b
InCyclicWindow(a, b, m) ==
    IF a = b THEN TRUE
    ELSE IF a < b THEN a <= m /\ m < b
    ELSE m >= a \/ m < b

ValidOnMatchingDay ==
    /\ LiveTested
    /\ IsClock(entry.time_on)
    /\ IsClock(entry.time_off)
    /\ OnMatchingDay(entry, now_utc.weekday)

AtMidnight == now_utc.hour = 0 /\ now_utc.minute = 0

\* C20 as stated: is_live at minute m is the membership of m in the cyclic
\* window from start mod 1440 to end mod 1440, "2400" acting as "0000" both
\* as time-on and as time-off
C20_AsStated ==
    ValidOnMatchingDay =>
        LET a == ClockMinute(entry.time_on) % MinutesOfDay
            b == ClockMinute(entry.time_off) % MinutesOfDay
        IN  is_live_now = InCyclicWindow(a, b, (now_utc.hour * 60) + now_utc.minute)

\* time-on is minute 1440 and time-off is minute 0
From2400To0000(e) == ClockMinute(e.time_on) = MinutesOfDay /\ ClockMinute(e.time_off) = 0

\* C20: is_live at minute m is the membership of m in the cyclic window from
\* start mod 1440 to end mod 1440, except that an entry from "2400" to "0000"
\* is never live.  (The minutes of a day are all tested once per entry and
\* day, in the states whose instant is the day's midnight.)
C20_CyclicWindow ==
    ValidOnMatchingDay =>
        LET a == ClockMinute(entry.time_on) % MinutesOfDay
            b == ClockMinute(entry.time_off) % MinutesOfDay
            Live(m) == ~From2400To0000(entry) /\ InCyclicWindow(a, b, m)
        IN  /\ is_live_now = Live((now_utc.hour * 60) + now_utc.minute)
            /\ AtMidnight =>
                   \A m \in 0..(MinutesOfDay - 1) :
                       IsLiveNow(entry, At(now_utc.weekday, m \div 60, m % 60)) = Live(m)

\* an entry "2400"/"0000" of Monday has been tested at Monday 12:30 and is
\* not live
C20_Witness ==
    /\ LiveTested
    /\ entry.time_on = T2400
    /\ entry.time_off = T0000
    /\ entry.day_set = <<"mo">>
    /\ now_utc = At(Monday, 12, 30)
    /\ ~is_live_now

(***************************************************************************)
(* C21: the scatter points and the plot area                               *)
(***************************************************************************)
\* C21: every point of the scatter lies inside the plot area, in hundredths:
\* left <= x <= plot_w - right and top <= y <= plot_h - bottom, for every
\* merged list, one of a single positive frequency and one with a start at
\* "2400" included
C21_PointsInsidePlotArea ==
    PlotBuilt =>
        \A k \in 1..Len(view.points) :
            /\ 100 * left <= view.points[k].x
            /\ view.points[k].x <= 100 * (plot_w - right)
            /\ 100 * top <= view.points[k].y
            /\ view.points[k].y <= 100 * (plot_h - bottom)

(***************************************************************************)
(* C22: the span of a frequency jump marker                                *)
(***************************************************************************)
\* C22: for every number of positive frequencies from 1 up, fewer than the
\* 10 segments included, the bucket of every marker starts at or before the
\* index it ends at, so the span that its label shows does not end below the
\* frequency it starts at
C22_SpanStartsBeforeEnd ==
    JumpsBuilt /\ PositiveFreqs # {} =>
        \A k \in 1..Len(view.freq_jumps) :
            /\ view.freq_jumps[k].start_idx <= view.freq_jumps[k].end_idx
            /\ view.freq_jumps[k].start_khz <= view.freq_jumps[k].end_khz

(***************************************************************************)
(* C23: the sockets of the client                                          *)
(***************************************************************************)
\* the open sockets are the one of the handle held, or none
OnlyTheHandleIsOpen == sockets = (IF _ws = NoSocket THEN {} ELSE {_ws})

\* thread t returns from status() on this step
StatusReturns(t) ==
    /\ threads[t].op = "status"
    /\ threads[t].pc = "locked"
    /\ threads'[t].pc = "idle"

\* C23: at every moment the client has at most one open socket, the one of
\* the handle it holds; whenever the handle is replaced or dropped the socket
\* it held is closed by then; and status() reports connected exactly when a
\* handle is held as it returns
C23_AtMostOneOpenSocket ==
    /\ [](Cardinality(sockets) <= 1 /\ OnlyTheHandleIsOpen)
    /\ [][/\ _ws # NoSocket /\ _ws' # _ws => _ws \notin sockets'
          /\ \A t \in Threads :
                 StatusReturns(t) =>
                     /\ threads'[t].result.connected = (_ws # NoSocket)
                     /\ _ws' = _ws]_vars

\* connect was called twice and status once: the second connection is the
\* only open socket, and status has reported connected
C23_Witness ==
    /\ _ws = 2
    /\ sockets = {2}
    /\ \E t \in Threads :
           /\ threads[t].op = "status"
           /\ threads[t].pc = "idle"
           /\ threads[t].result.connected

====
